---- MODULE Spec2Model ----
(***************************************************************************)
(* Model of the authenticated-request pipeline of service-manager-cli:     *)
(*   pkg/auth/oidc/common.go  - NewClient, the two token sources, Client,  *)
(*                              fetchOpenidConfiguration                   *)
(*   pkg/smclient/client.go   - NewClientWithAuth, Call, the CRUD          *)
(*                              operations built on it, ListOfferings      *)
(* A pointer that may be nil is a sequence: <<>> is nil, <<v>> points to v.*)
(* Time is counted in ticks of the oauth2 library's early-expiry margin.   *)
(***************************************************************************)
EXTENDS Integers, Sequences, FiniteSets, TLC

VARIABLES
    client,                     \* <<>> before NewClient, else <<the oidc.Client>>
    sources,                    \* heap of reuseTokenSource objects, by address
    seed,                       \* the token argument NewClient was called with
    options,                    \* the auth.Options NewClient was called with
    brokenAuthHeaderProviders,  \* oauth2's process-wide registry
    sm,                         \* <<>> or <<the serviceManagerClient>>
    now,                        \* the wall clock
    last,                       \* outcome of the most recent operation
    mu,                         \* the mutex of the client's reuseTokenSource
    calls                       \* the Token and Do calls under way, by caller

vars ==
    <<client, sources, seed, options, brokenAuthHeaderProviders, sm, now, last, mu, calls>>

-----------------------------------------------------------------------------
(* Bounds of the model *)

MaxTime == 3          \* the clock runs from 1 to MaxTime
MaxExpiresIn == 2     \* largest expires_in the token endpoint answers with
MaxOfferings == 2     \* most service offerings the server lists
MaxSources == 4       \* most token sources the clients of one process hold

(* time.Time{}: a token whose Expiry is the zero time never expires *)
ZeroTime == 0
(* oauth2's expiryDelta: a token counts as expired this long before Expiry *)
expiryDelta == 1

nil == [type |-> "nil"]

IssuerURL == "https://issuer"

SeedAccessTokens == {"", "seed-access"}
SeedRefreshTokens == {"", "seed-refresh"}
SeedTokenTypes == {"", "bearer"}
IssuedAccessTokens == {"access-1", "access-2"}
IssuedRefreshTokens == {"", "refresh-1"}

(* every *auth.Token a caller can pass to NewClient *)
AuthTokens ==
    {<<>>} \cup
    { <<[AccessToken |-> a, RefreshToken |-> r, ExpiresIn |-> e, TokenType |-> ty]>> :
        a \in SeedAccessTokens, r \in SeedRefreshTokens,
        e \in ZeroTime..MaxTime, ty \in SeedTokenTypes }

(* every auth.Options, as far as NewClient reads it *)
AuthOptions ==
    { [TokenBasicAuth |-> b, IssuerURL |-> IssuerURL] : b \in BOOLEAN }

(* every answer of the token endpoint to one exchange *)
TokenResponses ==
    { [ok |-> FALSE, access_token |-> "", refresh_token |-> "",
       expires_in |-> 0, token_type |-> ""] } \cup
    { [ok |-> TRUE, access_token |-> a, refresh_token |-> r,
       expires_in |-> e, token_type |-> "bearer"] :
        a \in IssuedAccessTokens \cup {""}, r \in IssuedRefreshTokens,
        e \in 0..MaxExpiresIn }

(* a field of a JSON object: absent, a string or a number *)
ErrorFields ==
    { [type |-> "absent", val |-> ""], [type |-> "string", val |-> "invalid_token"],
      [type |-> "number", val |-> "42"] }
DescriptionFields ==
    { [type |-> "absent", val |-> ""], [type |-> "string", val |-> "expired"],
      [type |-> "number", val |-> "7"] }

(* response bodies: text that is no JSON object, or a JSON object *)
GarbageBody ==
    [json |-> "garbage", error |-> [type |-> "absent", val |-> ""],
     description |-> [type |-> "absent", val |-> ""], id |-> ""]
Bodies ==
    {GarbageBody} \cup
    { [json |-> "object", error |-> e, description |-> d, id |-> "id-1"] :
        e \in ErrorFields, d \in DescriptionFields }

Statuses == {199, 200, 201, 204, 299, 300, 400}

TransportError == [netErr |-> TRUE, StatusCode |-> 0, body |-> GarbageBody]

(* every outcome of one round trip to the resource server *)
Outcomes ==
    {TransportError} \cup
    { [netErr |-> FALSE, StatusCode |-> st, body |-> b] : st \in Statuses, b \in Bodies }

(* every field combination is tried on status 400, one object and one
   undecodable body on the other statuses *)
SMOutcomes ==
    { o \in Outcomes :
        \/ o.netErr
        \/ o.StatusCode = 400
        \/ o.body = GarbageBody
        \/ (o.body.error.type = "string" /\ o.body.description.type = "string") }

(* the tokens and token-endpoint answers tried under the serviceManagerClient *)
SMTokens ==
    { t \in AuthTokens :
        \/ t = <<>>
        \/ (t[1].AccessToken # "" /\ t[1].RefreshToken # "" /\ t[1].ExpiresIn = ZeroTime
              /\ t[1].TokenType = "bearer") }
SMTokenResponses ==
    { r \in TokenResponses :
        \/ ~r.ok
        \/ (r.access_token = "access-1" /\ r.refresh_token = "" /\ r.expires_in = 0) }

ConfigURLs == {"https://sm/", "://bad"}
Collections == {"PlatformsURL", "ServiceBrokersURL", "VisibilitiesURL"}
Queries == {<<>>, << [encoded |-> "fieldQuery=a&sort=b", GeneralParams |-> "sort=b"] >>}
Resources == { [marshals |-> b] : b \in BOOLEAN }
IDs == {"id-1"}

(* the goroutines that call Token and Do of one client at the same time *)
Callers == {"g1", "g2", "g3"}

(* the tokens and token-endpoint answers tried under concurrent callers: no
   token or one that has expired, and answers whose token lasts one tick *)
ConcurrentTokens ==
    { t \in AuthTokens :
        \/ t = <<>>
        \/ (t[1].AccessToken # "" /\ t[1].RefreshToken # "" /\ t[1].ExpiresIn = 1
              /\ t[1].TokenType = "bearer") }
ConcurrentResponses ==
    { r \in TokenResponses :
        \/ ~r.ok
        \/ (r.access_token # "" /\ r.refresh_token = "" /\ r.expires_in = 1) }

(* the outcomes tried where the response is handed on unread *)
DoOutcomes ==
    { o \in Outcomes : o.netErr \/ (o.StatusCode = 400 /\ o.body = GarbageBody) }

-----------------------------------------------------------------------------
(* golang.org/x/oauth2, as common.go uses it *)

(* Token.expired *)
expired(t, clock) == t.Expiry # ZeroTime /\ t.Expiry - expiryDelta < clock

(* Token.Valid, on a *Token *)
Valid(tp, clock) ==
    /\ tp # <<>>
    /\ tp[1].AccessToken # ""
    /\ ~expired(tp[1], clock)

(* Token.Type *)
Type(t) ==
    CASE t.TokenType = "bearer" -> "Bearer"
      [] t.TokenType = "mac"    -> "MAC"
      [] t.TokenType = "basic"  -> "Basic"
      [] t.TokenType = ""       -> "Bearer"
      [] OTHER                  -> t.TokenType

(* internal.RetrieveToken: one round trip to the token endpoint *)
RetrieveToken(grant, r, clock) ==
    IF ~r.ok
    THEN [tok |-> <<>>, err |-> [type |-> "RetrieveError", grant |-> grant]]
    ELSE IF r.access_token = ""
    THEN [tok |-> <<>>, err |-> [type |-> "MissingAccessToken", grant |-> grant]]
    ELSE [tok |-> << [AccessToken |-> r.access_token,
                      RefreshToken |-> r.refresh_token,
                      Expiry |-> IF r.expires_in # 0 THEN clock + r.expires_in
                                 ELSE ZeroTime,
                      TokenType |-> r.token_type] >>,
          err |-> nil]

(* clientcredentials.tokenSource.Token *)
clientCredentialsToken(new, r, clock) ==
    LET res == RetrieveToken("client_credentials", r, clock)
    IN  [tok |-> res.tok, err |-> res.err, new |-> new,
         exchanges |-> << "client_credentials" >>]

(* tokenRefresherToken, were it to ask with the client credentials grant *)
tokenRefresherToken_ClientCredentials(new, r, clock) ==
    clientCredentialsToken(new, r, clock)

(* Config.retrieveToken keeps the old refresh token when the answer has none;
   tokenRefresher.Token then remembers the token's refresh token *)
refreshed(new, res) ==
    IF res.err # nil
    THEN [tok |-> <<>>, err |-> res.err, new |-> new,
          exchanges |-> << "refresh_token" >>]
    ELSE IF res.tok[1].RefreshToken = ""
    THEN [tok |-> << [res.tok[1] EXCEPT !.RefreshToken = new.refreshToken] >>,
          err |-> nil, new |-> new, exchanges |-> << "refresh_token" >>]
    ELSE [tok |-> res.tok, err |-> nil,
          new |-> [new EXCEPT !.refreshToken = res.tok[1].RefreshToken],
          exchanges |-> << "refresh_token" >>]

(* oauth2.tokenRefresher.Token *)
tokenRefresherToken(new, r, clock) ==
    IF new.refreshToken = ""
    THEN [tok |-> <<>>, err |-> [type |-> "NoRefreshToken", grant |-> "refresh_token"],
          new |-> new, exchanges |-> << >>]
    ELSE refreshed(new, RetrieveToken("refresh_token", r, clock))

(* a failed refresh answered by falling back on the client credentials *)
fallback(new, r, clock, res) ==
    IF res.err # nil THEN clientCredentialsToken(new, r, clock) ELSE res

(* newToken, were a failed refresh to fall back on the client credentials *)
newToken_Fallback(new, r, clock) ==
    IF new.kind = "clientCredentials"
    THEN clientCredentialsToken(new, r, clock)
    ELSE fallback(new, r, clock, tokenRefresherToken(new, r, clock))

(* the source a reuseTokenSource falls back on *)
newToken(new, r, clock) ==
    IF new.kind = "clientCredentials"
    THEN clientCredentialsToken(new, r, clock)
    ELSE tokenRefresherToken(new, r, clock)

(* store, were a failed fetch to drop the token held so far *)
store_DropsOnError(s, res) ==
    IF res.err # nil
    THEN [s |-> [t |-> <<>>, new |-> res.new], tok |-> <<>>,
          err |-> res.err, exchanges |-> res.exchanges]
    ELSE [s |-> [t |-> res.tok, new |-> res.new], tok |-> res.tok,
          err |-> nil, exchanges |-> res.exchanges]

(* store, were a failed fetch to leave the source without a way to fetch *)
store_GivesUpOnError(s, res) ==
    IF res.err # nil
    THEN [s |-> [s EXCEPT !.new = [kind |-> "none", refreshToken |-> ""]], tok |-> <<>>,
          err |-> res.err, exchanges |-> res.exchanges]
    ELSE [s |-> [t |-> res.tok, new |-> res.new], tok |-> res.tok,
          err |-> nil, exchanges |-> res.exchanges]

(* the tail of reuseTokenSource.Token: keep the token res just fetched *)
store(s, res) ==
    IF res.err # nil
    THEN [s |-> [s EXCEPT !.new = res.new], tok |-> <<>>,
          err |-> res.err, exchanges |-> res.exchanges]
    ELSE [s |-> [t |-> res.tok, new |-> res.new], tok |-> res.tok,
          err |-> nil, exchanges |-> res.exchanges]

(* reuseTokenSourceToken, were it to fetch a token on every call *)
reuseTokenSourceToken_Always(s, r, clock) == store(s, newToken(s.new, r, clock))

(* oauth2.reuseTokenSource.Token on the object s *)
reuseTokenSourceToken(s, r, clock) ==
    IF Valid(s.t, clock)
    THEN [s |-> s, tok |-> s.t, err |-> nil, exchanges |-> << >>]
    ELSE store(s, newToken(s.new, r, clock))

(* oauth2.ReuseTokenSource(t, src) on the heap h: the address of the source it
   returns and the heap afterwards; src is the address of a reuseTokenSource *)
ReuseTokenSource(h, t, src) ==
    IF t = <<>>
    THEN [heap |-> h, addr |-> src]
    ELSE [heap |-> Append(h, [t |-> t, new |-> h[src].new]), addr |-> Len(h) + 1]

(* Token.SetAuthHeader on a copy of the request *)
SetAuthHeader(req, tok) ==
    [req EXCEPT !.Authorization = <<Type(tok[1]), tok[1].AccessToken>>]

(* the base transport's round trip, whose outcome is o *)
baseRoundTrip(h, req2, o, exchanges) ==
    IF o.netErr
    THEN [heap |-> h, resp |-> <<>>, err |-> [type |-> "net.Error"],
          sent |-> <<req2>>, exchanges |-> exchanges]
    ELSE [heap |-> h,
          resp |-> << [StatusCode |-> o.StatusCode, body |-> o.body] >>,
          err |-> nil, sent |-> <<req2>>, exchanges |-> exchanges]

(* the body of Transport.RoundTrip once the source has answered with res *)
roundTripWith(h, a, req, o, res) ==
    IF res.err # nil
    THEN [heap |-> [h EXCEPT ![a] = res.s], resp |-> <<>>, err |-> res.err,
          sent |-> << >>, exchanges |-> res.exchanges]
    ELSE baseRoundTrip([h EXCEPT ![a] = res.s], SetAuthHeader(req, res.tok), o,
                       res.exchanges)

(* the same, were the request sent on although no token was obtained *)
roundTripAnyway(h, a, req, o, res) ==
    baseRoundTrip([h EXCEPT ![a] = res.s],
                  IF res.err # nil THEN req ELSE SetAuthHeader(req, res.tok),
                  o, res.exchanges)

(* RoundTrip, were it to send the request on although no token was obtained *)
RoundTrip_SendAnyway(h, a, req, r, o, clock) ==
    roundTripAnyway(h, a, req, o, reuseTokenSourceToken(h[a], r, clock))

(* oauth2.Transport.RoundTrip with Source at address a: fetch the token, set
   the Authorization header on a copy of the request, hand it to the base
   transport *)
RoundTrip(h, a, req, r, o, clock) ==
    roundTripWith(h, a, req, o, reuseTokenSourceToken(h[a], r, clock))

(* an error of the transport comes back from net/http as a *url.Error *)
urlError(req, rt) ==
    IF rt.err # nil
    THEN [rt EXCEPT !.err = [type |-> "url.Error", Op |-> req.Method, Err |-> rt.err]]
    ELSE rt

(* net/http Client.Do over that transport *)
httpClientDo(h, a, req, r, o, clock) == urlError(req, RoundTrip(h, a, req, r, o, clock))

-----------------------------------------------------------------------------
(* reuseTokenSource.Token step by step, for callers that overlap *)

(* a caller that is in no call *)
Idle ==
    [pc |-> "idle", op |-> "", stale |-> FALSE, tok |-> <<>>, failed |-> FALSE,
     exchanged |-> FALSE]

(* mutexFree, were Token not to take the mutex *)
mutexFree_NoMutex(m) == TRUE

(* s.mu.Lock() can proceed *)
mutexFree(m) == m = "unlocked"

(* Client.Token or Client.Do is called by g and comes to s.mu.Lock() *)
Begin(g, op) ==
    /\ client # <<>>
    /\ calls[g].pc = "idle"
    /\ calls' = [calls EXCEPT ![g] =
                    [Idle EXCEPT !.pc = "lock", !.op = op,
                                 !.stale = ~Valid(sources[client[1].tokenSource].t, now)]]
    /\ UNCHANGED <<client, sources, seed, options, brokenAuthHeaderProviders, sm, now,
                   last, mu>>

(* g takes the mutex and looks at the token: a valid one is returned, the
   mutex released; otherwise g asks the underlying source, holding the mutex *)
Lock(g) ==
    /\ calls[g].pc = "lock"
    /\ mutexFree(mu)
    /\ IF Valid(sources[client[1].tokenSource].t, now)
       THEN /\ calls' = [calls EXCEPT ![g].pc = "done",
                                      ![g].tok = sources[client[1].tokenSource].t]
            /\ mu' = "unlocked"
       ELSE /\ calls' = [calls EXCEPT ![g].pc = "fetching"]
            /\ mu' = g
    /\ UNCHANGED <<client, sources, seed, options, brokenAuthHeaderProviders, sm, now,
                   last>>

(* the step of g that came to res: the token is kept, the mutex released *)
fetched(g, res) ==
    /\ sources' = [sources EXCEPT ![client[1].tokenSource] = res.s]
    /\ calls' = [calls EXCEPT ![g].pc = "done", ![g].tok = res.tok,
                              ![g].failed = (res.err # nil), ![g].exchanged = TRUE]
    /\ mu' = "unlocked"
    /\ UNCHANGED <<client, seed, options, brokenAuthHeaderProviders, sm, now, last>>

(* the underlying source of g's call answers, the token endpoint having
   answered r *)
Fetched(g, r) ==
    /\ calls[g].pc = "fetching"
    /\ fetched(g, store(sources[client[1].tokenSource],
                        newToken(sources[client[1].tokenSource].new, r, now)))

(* the call of g returns to its caller *)
Return(g) ==
    /\ calls[g].pc = "done"
    /\ calls' = [calls EXCEPT ![g] = Idle]
    /\ UNCHANGED <<client, sources, seed, options, brokenAuthHeaderProviders, sm, now,
                   last, mu>>

-----------------------------------------------------------------------------
(* pkg/auth/oidc/common.go *)

(* the oauth2.Token tt that NewClient fills from its token argument *)
tokenCopy(token) ==
    IF token # <<>>
    THEN [AccessToken |-> token[1].AccessToken,
          RefreshToken |-> token[1].RefreshToken,
          Expiry |-> token[1].ExpiresIn,
          TokenType |-> token[1].TokenType]
    ELSE [AccessToken |-> "", RefreshToken |-> "", Expiry |-> ZeroTime,
          TokenType |-> ""]

(* oauthConfig.TokenSource(ctx, &token) of refreshTokenSource *)
refreshTokenSource(h, token) ==
    [heap |-> Append(h, [t |-> <<token>>,
                         new |-> [kind |-> "refresh",
                                  refreshToken |-> token.RefreshToken]]),
     addr |-> Len(h) + 1]

(* clientCredentialsTokenSource, were the existing token not passed on *)
clientCredentialsTokenSource_NoSeed(h, token) ==
    [heap |-> Append(h, [t |-> <<>>,
                         new |-> [kind |-> "clientCredentials", refreshToken |-> ""]]),
     addr |-> Len(h) + 1]

(* clientcredentials' TokenSource wraps its source once; common.go wraps the
   result again with the token *)
clientCredentialsTokenSource(h, token) ==
    LET clientCredentialsSource ==
            Append(h, [t |-> <<>>,
                       new |-> [kind |-> "clientCredentials", refreshToken |-> ""]])
    IN  ReuseTokenSource(clientCredentialsSource, <<token>>, Len(h) + 1)

(* selectTokenSource, were only a missing token to select client credentials *)
selectTokenSource_NilOnly(h, token, tt) ==
    IF token = <<>>
    THEN clientCredentialsTokenSource(h, tt)
    ELSE refreshTokenSource(h, tt)

(* the branch of NewClient that picks the token source *)
selectTokenSource(h, token, tt) ==
    IF token = <<>> \/ tt.RefreshToken = ""
    THEN clientCredentialsTokenSource(h, tt)
    ELSE refreshTokenSource(h, tt)

(* oauth2NewClient, were the Transport given a cache of its own *)
oauth2NewClient_OwnCache(h, tokenSource) ==
    [heap |-> Append(h, [t |-> h[tokenSource].t, new |-> h[tokenSource].new]),
     addr |-> Len(h) + 1]

(* oauth2.NewClient(ctx, tokenSource): the Transport's Source *)
oauth2NewClient(h, tokenSource) == ReuseTokenSource(h, <<>>, tokenSource)

NoCall ==
    [op |-> "none", err |-> nil, token |-> <<>>, exchanges |-> << >>,
     before |-> <<>>, at |-> 0, sent |-> << >>, resp |-> <<>>,
     value |-> <<>>, outcome |-> TransportError, url |-> << >>,
     answer |-> CHOOSE r \in TokenResponses : ~r.ok,
     steps |-> << >>, inputs |-> << >>, authStyle |-> "", panic |-> ""]

(* the lines of NewClient that build the token source and the http client *)
buildClient(h, token) ==
    LET tt == tokenCopy(token)
        ts == selectTokenSource(h, token, tt)
        oc == oauth2NewClient(ts.heap, ts.addr)
    IN  [heap |-> oc.heap,
         client |-> [tokenSource |-> ts.addr, httpClient |-> [Source |-> oc.addr]]]

(* oauth2.RegisterBrokenAuthHeaderProvider, as NewClient calls it *)
registerProvider(reg, opts) ==
    IF ~opts.TokenBasicAuth THEN reg \cup {opts.IssuerURL} ELSE reg

NewClient(opts, token) ==
    /\ client = <<>>
    /\ LET b == buildClient(sources, token)
       IN  /\ sources' = b.heap
           /\ client' = <<b.client>>
    /\ brokenAuthHeaderProviders' = registerProvider(brokenAuthHeaderProviders, opts)
    /\ seed' = token
    /\ options' = <<opts>>
    /\ last' = [NoCall EXCEPT !.op = "NewClient"]
    /\ UNCHANGED <<sm, now, mu, calls>>

(* the token endpoint of a client: a URL under its issuer URL *)
TokenURL(opts) == <<opts.IssuerURL, "/oauth/token">>

(* how an exchange with the token endpoint of a client with the options opts
   sends the client id and secret: as form parameters when a registered
   provider URL is a prefix of the token URL, else in the Basic-Auth header *)
authStyle(reg, opts) ==
    IF \E broken \in reg : TokenURL(opts)[1] = broken THEN "params" ELSE "header"

(* the same, for the exchanges a call made *)
styleOf(exchanges) ==
    IF exchanges = << >> THEN ""
    ELSE authStyle(brokenAuthHeaderProviders, options[1])

(* oidc.NewClient called for another client of the process: its token source
   is its own, the provider registry is everyone's *)
NewOtherClient(opts, token) ==
    /\ Len(sources) < MaxSources
    /\ sources' = buildClient(sources, token).heap
    /\ brokenAuthHeaderProviders' = registerProvider(brokenAuthHeaderProviders, opts)
    /\ last' = [NoCall EXCEPT !.op = "NewOtherClient"]
    /\ UNCHANGED <<client, seed, options, sm, now, mu, calls>>

(* the *auth.Token that Client.Token builds from the source's token *)
authToken(tok) ==
    << [AccessToken |-> tok[1].AccessToken,
        RefreshToken |-> tok[1].RefreshToken,
        ExpiresIn |-> tok[1].Expiry,
        TokenType |-> tok[1].TokenType] >>

(* Client.Token *)
ClientToken(r) ==
    /\ client # <<>>
    /\ sm = <<>>
    /\ LET a == client[1].tokenSource
           res == reuseTokenSourceToken(sources[a], r, now)
       IN  /\ sources' = [sources EXCEPT ![a] = res.s]
           /\ last' = [NoCall EXCEPT
                         !.op = "Token",
                         !.err = res.err,
                         !.token = IF res.err # nil THEN <<>> ELSE authToken(res.tok),
                         !.exchanges = res.exchanges,
                         !.before = sources[a].t,
                         !.at = now,
                         !.answer = r,
                         !.authStyle = styleOf(res.exchanges)]
    /\ UNCHANGED <<client, seed, options, brokenAuthHeaderProviders, sm, now, mu, calls>>

(* Client.Do, as an operator: c is the Client *)
Do(h, c, req, r, o, clock) == httpClientDo(h, c.httpClient.Source, req, r, o, clock)

Request(method, url) == [Method |-> method, URL |-> url, Authorization |-> << >>]

(* Client.Do called directly *)
ClientDo(r, o) ==
    /\ client # <<>>
    /\ sm = <<>>
    /\ LET d == Do(sources, client[1], Request("GET", "https://resource"), r, o, now)
       IN  /\ sources' = d.heap
           /\ last' = [NoCall EXCEPT
                         !.op = "Do",
                         !.err = d.err,
                         !.resp = d.resp,
                         !.sent = d.sent,
                         !.exchanges = d.exchanges,
                         !.before = sources[client[1].httpClient.Source].t,
                         !.at = now,
                         !.outcome = o,
                         !.answer = r,
                         !.authStyle = styleOf(d.exchanges)]
    /\ UNCHANGED <<client, seed, options, brokenAuthHeaderProviders, sm, now, mu, calls>>

-----------------------------------------------------------------------------
(* pkg/httputil, pkg/query, pkg/errors: the helpers client.go calls *)

(* httputil.NormalizeURL: the base URL without its trailing slash *)
NormalizeURL(url) ==
    CASE url = "https://sm/" -> "https://sm"
      [] OTHER               -> url

(* query.Parameters.Encode: the encoded query string, empty for no parameters *)
Encode(q) == IF q = <<>> THEN "" ELSE q[1].encoded

(* httputil.UnmarshalResponse: decode the body as JSON into the target *)
UnmarshalResponse(resp) ==
    IF resp.body.json = "object"
    THEN [err |-> nil, content |-> resp.body]
    ELSE [err |-> [type |-> "json.SyntaxError"], content |-> GarbageBody]

(* errors.ResponseError{}, all fields zero *)
ResponseError ==
    [type |-> "ResponseError", StatusCode |-> 0, URL |-> << >>,
     ErrorMessage |-> "", Description |-> ""]

-----------------------------------------------------------------------------
(* pkg/smclient/client.go *)

StatusOK == 200
StatusCreated == 201

(* buildURL *)
buildURL(baseURL, q) ==
    LET queryParams == Encode(q)
    IN  IF queryParams = "" THEN <<baseURL>> ELSE <<baseURL, "?", queryParams>>

(* http.NewRequest fails on a URL it cannot parse *)
NewRequestFails(fullURL) == fullURL[1] = "://bad"

(* stringField, were any field that is present taken for a string *)
stringField_AnyType(f) == [ok |-> f.type # "absent", val |-> f.val]

(* a value, ok := m[key].(string) *)
stringField(f) == [ok |-> f.type = "string", val |-> IF f.type = "string" THEN f.val ELSE ""]

(* lines 361-381 of Call: the ResponseError of a response outside 200..299,
   filled from the body when that decodes (u is what UnmarshalResponse gave) *)
responseError(fullURL, resp, u) ==
    [ResponseError EXCEPT
        !.URL = fullURL,
        !.StatusCode = resp.StatusCode,
        !.ErrorMessage = IF u.err = nil /\ stringField(u.content.error).ok
                         THEN stringField(u.content.error).val ELSE "",
        !.Description = IF u.err = nil /\ stringField(u.content.description).ok
                        THEN stringField(u.content.description).val ELSE ""]

(* callResult, were an error of httpClient.Do turned into a ResponseError *)
callResult_WrapsError(fullURL, d) ==
    IF d.err # nil
    THEN [heap |-> d.heap, resp |-> <<>>,
          err |-> [ResponseError EXCEPT !.URL = fullURL], sent |-> d.sent,
          exchanges |-> d.exchanges, url |-> fullURL]
    ELSE IF d.resp[1].StatusCode < 200 \/ d.resp[1].StatusCode > 299
    THEN [heap |-> d.heap,
          resp |-> IF UnmarshalResponse(d.resp[1]).err # nil THEN d.resp ELSE <<>>,
          err |-> responseError(fullURL, d.resp[1], UnmarshalResponse(d.resp[1])),
          sent |-> d.sent, exchanges |-> d.exchanges, url |-> fullURL]
    ELSE [heap |-> d.heap, resp |-> d.resp, err |-> nil, sent |-> d.sent,
          exchanges |-> d.exchanges, url |-> fullURL]

(* lines 357-383 of Call: what it makes of the result d of httpClient.Do *)
callResult(fullURL, d) ==
    IF d.err # nil
    THEN [heap |-> d.heap, resp |-> <<>>, err |-> d.err, sent |-> d.sent,
          exchanges |-> d.exchanges, url |-> fullURL]
    ELSE IF d.resp[1].StatusCode < 200 \/ d.resp[1].StatusCode > 299
    THEN [heap |-> d.heap,
          resp |-> IF UnmarshalResponse(d.resp[1]).err # nil THEN d.resp ELSE <<>>,
          err |-> responseError(fullURL, d.resp[1], UnmarshalResponse(d.resp[1])),
          sent |-> d.sent, exchanges |-> d.exchanges, url |-> fullURL]
    ELSE [heap |-> d.heap, resp |-> d.resp, err |-> nil, sent |-> d.sent,
          exchanges |-> d.exchanges, url |-> fullURL]

(* client.httpClient.Do(req): the oidc client, or a plain http client such as
   http.DefaultClient, which sends the request as it is *)
clientDo(h, s, req, r, o, clock) ==
    IF s.httpClient = "oidc"
    THEN Do(h, client[1], req, r, o, clock)
    ELSE urlError(req, baseRoundTrip(h, req, o, << >>))

(* lines 348-356 of Call, on the request URL fullURL *)
callURL(h, s, method, fullURL, r, o, clock) ==
    IF NewRequestFails(fullURL)
    THEN [heap |-> h, resp |-> <<>>,
          err |-> [type |-> "url.Error", Op |-> "parse", Err |-> nil],
          sent |-> << >>, exchanges |-> << >>, url |-> fullURL]
    ELSE callResult(fullURL, clientDo(h, s, Request(method, fullURL), r, o, clock))

(* serviceManagerClient.Call on the client s *)
Call(h, s, method, smpath, q, r, o, clock) ==
    callURL(h, s, method, <<NormalizeURL(s.config.URL)>> \o buildURL(smpath, q),
            r, o, clock)

(* what register, list, update, delete, Label and GetInfo make of the result c
   of Call: the status check against the one expected code, then the decoding
   (decode = FALSE where the operation reads no body) *)
expect(expected, decode, c) ==
    IF c.err # nil
    THEN [heap |-> c.heap, err |-> c.err, result |-> <<>>, sent |-> c.sent,
          exchanges |-> c.exchanges, url |-> c.url]
    ELSE IF c.resp[1].StatusCode # expected
    THEN [heap |-> c.heap,
          err |-> [ResponseError EXCEPT !.StatusCode = c.resp[1].StatusCode],
          result |-> <<>>, sent |-> c.sent, exchanges |-> c.exchanges, url |-> c.url]
    ELSE IF ~decode
    THEN [heap |-> c.heap, err |-> nil, result |-> <<>>, sent |-> c.sent,
          exchanges |-> c.exchanges, url |-> c.url]
    ELSE IF UnmarshalResponse(c.resp[1]).err # nil
    THEN [heap |-> c.heap, err |-> UnmarshalResponse(c.resp[1]).err, result |-> <<>>,
          sent |-> c.sent, exchanges |-> c.exchanges, url |-> c.url]
    ELSE [heap |-> c.heap, err |-> nil,
          result |-> << [ID |-> UnmarshalResponse(c.resp[1]).content.id] >>,
          sent |-> c.sent, exchanges |-> c.exchanges, url |-> c.url]

(* the shared body of register, list, update, delete, Label and GetInfo *)
callExpect(h, s, method, url, q, expected, decode, r, o, clock) ==
    expect(expected, decode, Call(h, s, method, url, q, r, o, clock))

(* json.Marshal of the resource fails *)
marshalError(h) ==
    [heap |-> h, err |-> [type |-> "json.MarshalerError"], result |-> <<>>,
     sent |-> << >>, exchanges |-> << >>, url |-> << >>]

(* register, were it to expect 200 like the other operations *)
register_ExpectsOK(h, s, resource, url, q, r, o, clock) ==
    IF ~resource.marshals
    THEN marshalError(h)
    ELSE callExpect(h, s, "POST", url, q, StatusOK, TRUE, r, o, clock)

(* serviceManagerClient.register *)
register(h, s, resource, url, q, r, o, clock) ==
    IF ~resource.marshals
    THEN marshalError(h)
    ELSE callExpect(h, s, "POST", url, q, StatusCreated, TRUE, r, o, clock)

(* serviceManagerClient.list *)
list(h, s, url, q, r, o, clock) ==
    callExpect(h, s, "GET", url, q, StatusOK, TRUE, r, o, clock)

(* delete, were it to expect 204 No Content *)
delete_ExpectsNoContent(h, s, url, q, r, o, clock) ==
    callExpect(h, s, "DELETE", url, q, 204, FALSE, r, o, clock)

(* serviceManagerClient.delete *)
delete(h, s, url, q, r, o, clock) ==
    callExpect(h, s, "DELETE", url, q, StatusOK, FALSE, r, o, clock)

(* serviceManagerClient.update *)
update(h, s, resource, url, id, q, r, o, clock) ==
    IF ~resource.marshals
    THEN marshalError(h)
    ELSE callExpect(h, s, "PATCH", url \o "/" \o id, q, StatusOK, TRUE, r, o, clock)

(* what RegisterPlatform, RegisterBroker and RegisterVisibility return *)
registerReturn(res) ==
    IF res.err # nil THEN [value |-> <<>>, err |-> res.err]
    ELSE [value |-> res.result, err |-> nil]

(* what ListBrokers, ListPlatforms and ListVisibilities return: the struct
   they allocated, filled or not, and list's error *)
listReturn(res) ==
    [value |-> IF res.result # <<>> THEN res.result ELSE << [ID |-> ""] >>,
     err |-> res.err]

(* what UpdateBroker, UpdatePlatform and UpdateVisibility return *)
updateReturn(res) ==
    IF res.err # nil THEN [value |-> <<>>, err |-> res.err]
    ELSE [value |-> res.result, err |-> nil]

(* what GetInfo returns *)
getInfoReturn(res) ==
    IF res.err # nil THEN [value |-> <<>>, err |-> res.err]
    ELSE [value |-> res.result, err |-> nil]

(* the record an operation of the serviceManagerClient leaves in last *)
Outcome(op, res, ret, resp, r, o) ==
    [NoCall EXCEPT !.op = op, !.err = ret.err, !.value = ret.value, !.resp = resp,
                   !.sent = res.sent, !.exchanges = res.exchanges, !.at = now,
                   !.before = sources[client[1].httpClient.Source].t,
                   !.outcome = o, !.url = res.url, !.answer = r,
                   !.authStyle = styleOf(res.exchanges)]

SMFrame ==
    UNCHANGED <<client, seed, options, brokenAuthHeaderProviders, sm, now, mu, calls>>

(* the step of an operation that came to res and returns ret (and resp) *)
Finish(op, res, ret, resp, r, o) ==
    /\ sources' = res.heap
    /\ last' = Outcome(op, res, ret, resp, r, o)
    /\ SMFrame

callDone(c, r, o) == Finish("Call", c, [value |-> <<>>, err |-> c.err], c.resp, r, o)
getInfoDone(res, r, o) == Finish("GetInfo", res, getInfoReturn(res), <<>>, r, o)
registerDone(res, r, o) == Finish("Register", res, registerReturn(res), <<>>, r, o)
listDone(res, r, o) == Finish("List", res, listReturn(res), <<>>, r, o)
updateDone(res, r, o) == Finish("Update", res, updateReturn(res), <<>>, r, o)
deleteDone(res, r, o) == Finish("Delete", res, [value |-> <<>>, err |-> res.err], <<>>, r, o)
labelDone(res, r, o) == Finish("Label", res, [value |-> <<>>, err |-> res.err], <<>>, r, o)

(* Client.Call *)
SMCall(method, smpath, q, r, o) ==
    /\ sm # <<>>
    /\ callDone(Call(sources, sm[1], method, smpath, q, r, o, now), r, o)

(* Client.GetInfo *)
GetInfo(q, r, o) ==
    /\ sm # <<>>
    /\ getInfoDone(callExpect(sources, sm[1], "GET", "InfoURL", q, StatusOK, TRUE,
                              r, o, now), r, o)

(* Client.RegisterPlatform, RegisterBroker, RegisterVisibility *)
Register(url, resource, q, r, o) ==
    /\ sm # <<>>
    /\ registerDone(register(sources, sm[1], resource, url, q, r, o, now), r, o)

(* Client.ListPlatforms, ListBrokers, ListVisibilities *)
List(url, q, r, o) ==
    /\ sm # <<>>
    /\ listDone(list(sources, sm[1], url, q, r, o, now), r, o)

(* Client.UpdatePlatform, UpdateBroker, UpdateVisibility *)
Update(url, id, resource, q, r, o) ==
    /\ sm # <<>>
    /\ updateDone(update(sources, sm[1], resource, url, id, q, r, o, now), r, o)

(* Client.DeletePlatforms, DeleteBrokers, DeleteVisibilities *)
Delete(url, q, r, o) ==
    /\ sm # <<>>
    /\ deleteDone(delete(sources, sm[1], url, q, r, o, now), r, o)

(* Client.Label *)
Label(url, id, change, q, r, o) ==
    /\ sm # <<>>
    /\ labelDone(IF ~change.marshals THEN marshalError(sources)
                 ELSE callExpect(sources, sm[1], "PATCH", url \o "/" \o id, q,
                                 StatusOK, FALSE, r, o, now), r, o)

-----------------------------------------------------------------------------
(* serviceManagerClient.ListOfferings *)

(* a response with status 200 to the k-th request of ListOfferings, whose
   body is a JSON object that tells the number of the request *)
Page(k) ==
    [netErr |-> FALSE, StatusCode |-> StatusOK,
     body |-> [json |-> "object", error |-> [type |-> "absent", val |-> ""],
               description |-> [type |-> "absent", val |-> ""], id |-> ToString(k)]]

(* the outcomes tried for a request of ListOfferings that goes wrong *)
OfferingFailures ==
    { o \in Outcomes :
        \/ o.netErr
        \/ (o.StatusCode \in {200, 400} /\ o.body = GarbageBody)
        \/ (o.StatusCode = 204 /\ o.body.json = "object"
              /\ o.body.error.type = "absent" /\ o.body.description.type = "absent") }

(* the outcomes of the 1 + 2n requests: each answered with its Page, or all
   but one *)
OfferingOutcomes(n) ==
    { [k \in 1..(1 + 2 * n) |-> Page(k)] } \cup
    { [k \in 1..(1 + 2 * n) |-> IF k = p THEN f ELSE Page(k)] :
        p \in 1..(1 + 2 * n), f \in OfferingFailures }

(* the n offerings decoded from the first response *)
decodedOfferings(n) ==
    [i \in 1..n |-> [ID |-> "so-" \o ToString(i), BrokerID |-> "b-" \o ToString(i),
                     Plans |-> <<>>, BrokerName |-> ""]]

(* &query.Parameters{FieldQuery: ..., GeneralParams: q.GeneralParams} *)
plansQuery(so, q) ==
    << [encoded |-> "fieldQuery=service_offering_id = " \o so.ID \o "&"
                      \o q[1].GeneralParams,
        GeneralParams |-> q[1].GeneralParams] >>

(* &query.Parameters{GeneralParams: q.GeneralParams} *)
brokerQuery(q) ==
    << [encoded |-> q[1].GeneralParams, GeneralParams |-> q[1].GeneralParams] >>

(* acc after a list request of ListOfferings that came to res *)
requested(acc, res) ==
    [acc EXCEPT !.heap = res.heap, !.err = res.err,
                !.sent = acc.sent \o res.sent,
                !.exchanges = acc.exchanges \o res.exchanges]

(* lines 217-225: the broker of offering i has been asked for *)
brokerListed(acc, i, res) ==
    IF res.err # nil
    THEN requested(acc, res)
    ELSE [requested(acc, res) EXCEPT !.offerings[i].BrokerName = res.result[1].ID]

(* lines 212-216: the plans of offering i have been asked for *)
plansListed(acc, s, q, i, res, r, os, clock) ==
    IF res.err # nil
    THEN requested(acc, res)
    ELSE brokerListed([requested(acc, res) EXCEPT !.offerings[i].Plans = res.result],
                      i,
                      list(res.heap, s,
                           "ServiceBrokersURL" \o "/" \o acc.offerings[i].BrokerID,
                           brokerQuery(q), r, os[2 * i + 1], clock))

(* one round of the loop, for offering i *)
offeringFilled(acc, s, q, i, r, os, clock) ==
    plansListed(acc, s, q, i,
                list(acc.heap, s, "ServicePlansURL", plansQuery(acc.offerings[i], q),
                     r, os[2 * i], clock),
                r, os, clock)

(* lines 206-226: the loop over the offerings, from offering i on; q.GeneralParams
   dereferences q, which panics when q is nil *)
RECURSIVE offeringsLoop(_, _, _, _, _, _, _)
offeringsLoop(acc, s, q, i, r, os, clock) ==
    IF acc.err # nil \/ i > Len(acc.offerings)
    THEN acc
    ELSE IF q = <<>>
    THEN [acc EXCEPT !.panic = "invalid memory address or nil pointer dereference"]
    ELSE offeringsLoop(offeringFilled(acc, s, q, i, r, os, clock),
                       s, q, i + 1, r, os, clock)

(* lines 201-205: the offerings have been asked for *)
offeringsListed(res, n) ==
    [heap |-> res.heap, err |-> res.err,
     offerings |-> IF res.err # nil THEN << >> ELSE decodedOfferings(n),
     sent |-> res.sent, exchanges |-> res.exchanges, panic |-> ""]

(* serviceManagerClient.ListOfferings, the server listing n offerings *)
listOfferings(h, s, q, n, r, os, clock) ==
    offeringsLoop(offeringsListed(list(h, s, "ServiceOfferingsURL", q, r, os[1], clock),
                                  n),
                  s, q, 1, r, os, clock)

(* the step of ListOfferings that came to acc *)
offeringsDone(acc, q, n, r, os) ==
    /\ sources' = acc.heap
    /\ last' = [NoCall EXCEPT
                  !.op = "ListOfferings",
                  !.err = acc.err,
                  !.value = IF acc.err # nil \/ acc.panic # "" THEN <<>>
                            ELSE <<acc.offerings>>,
                  !.sent = acc.sent,
                  !.exchanges = acc.exchanges,
                  !.before = sources[client[1].httpClient.Source].t,
                  !.at = now,
                  !.answer = r,
                  !.inputs = [q |-> q, n |-> n, outcomes |-> os],
                  !.authStyle = styleOf(acc.exchanges),
                  !.panic = acc.panic]
    /\ SMFrame

(* Client.ListOfferings *)
ListOfferings(q, n, r, os) ==
    /\ sm # <<>>
    /\ offeringsDone(listOfferings(sources, sm[1], q, n, r, os, now), q, n, r, os)

-----------------------------------------------------------------------------
(* smclient.NewClientWithAuth and what it calls *)

(* the http clients a caller hands to NewClientWithAuth: none, or a plain one *)
BootClients == {<<>>, << "plain" >>}

(* the token_issuer_url that the info document names *)
Issuers == {IssuerURL, "://bad"}

(* the outcomes tried for the info request and for the discovery request *)
BootOutcomes ==
    { o \in Outcomes :
        \/ o.netErr
        \/ /\ o.StatusCode \in {200, 204, 400}
           /\ (o.body = GarbageBody
                 \/ (o.body.error.type = "absent" /\ o.body.description.type = "absent")) }

(* the tokens auth.GetToken comes back with, and its failure *)
BootTokens ==
    { t \in AuthTokens :
        /\ t # <<>>
        /\ t[1].AccessToken # "" /\ t[1].TokenType = "bearer"
        /\ t[1].ExpiresIn \in {ZeroTime, MaxTime} }
TokenGrants ==
    { [ok |-> FALSE, token |-> <<>>] } \cup { [ok |-> TRUE, token |-> t] : t \in BootTokens }

(* the request fetchOpenidConfiguration builds *)
configurationRequest(issuerURL) ==
    Request("GET", <<issuerURL, "/.well-known/openid-configuration">>)

(* the tail of fetchOpenidConfiguration, on the response of the request *)
readConfiguration(req, o) ==
    IF o.netErr
    THEN [configuration |-> <<>>, err |-> [type |-> "net.Error"], sent |-> <<req>>]
    ELSE IF o.StatusCode # StatusOK
    THEN [configuration |-> <<>>,
          err |-> [type |-> "errorString", text |-> "unexpected status code"],
          sent |-> <<req>>]
    ELSE IF UnmarshalResponse([StatusCode |-> o.StatusCode, body |-> o.body]).err # nil
    THEN [configuration |-> <<>>,
          err |-> UnmarshalResponse([StatusCode |-> o.StatusCode, body |-> o.body]).err,
          sent |-> <<req>>]
    ELSE [configuration |-> << [document |-> o.body.id] >>, err |-> nil, sent |-> <<req>>]

(* fetchOpenidConfiguration, were every status in 200..299 good enough *)
fetchOpenidConfiguration_AnySuccess(issuerURL, o) ==
    IF NewRequestFails(<<issuerURL>>)
    THEN [configuration |-> <<>>,
          err |-> [type |-> "url.Error", Op |-> "parse", Err |-> nil], sent |-> << >>]
    ELSE readConfiguration(configurationRequest(issuerURL),
                           IF ~o.netErr /\ o.StatusCode >= 200 /\ o.StatusCode <= 299
                           THEN [o EXCEPT !.StatusCode = StatusOK] ELSE o)

(* fetchOpenidConfiguration, readConfigurationFunc answering with outcome o *)
fetchOpenidConfiguration(issuerURL, o) ==
    IF NewRequestFails(<<issuerURL>>)
    THEN [configuration |-> <<>>,
          err |-> [type |-> "url.Error", Op |-> "parse", Err |-> nil], sent |-> << >>]
    ELSE readConfiguration(configurationRequest(issuerURL), o)

(* oidc.NewOpenIDStrategy: fetches the provider's configuration and returns
   the strategy with the options it was given *)
NewOpenIDStrategy(authOptions, o) ==
    [options |-> authOptions,
     err |-> fetchOpenidConfiguration(authOptions.IssuerURL, o).err,
     sent |-> fetchOpenidConfiguration(authOptions.IssuerURL, o).sent]

(* auth.GetToken: the first token of the client, or an error *)
GetToken(authOptions, g) ==
    IF g.ok THEN [token |-> g.token, err |-> nil]
    ELSE [token |-> <<>>, err |-> [type |-> "GetTokenError"]]

(* NewClientWithAuth returning nil and err after the steps named *)
aborted(err, steps, sent) ==
    [sm |-> <<>>, client |-> <<>>, heap |-> sources, reg |-> brokenAuthHeaderProviders,
     seed |-> <<>>, options |-> <<>>, err |-> err, steps |-> steps, sent |-> sent]

(* lines 98-102: oidc.NewClient(authOptions, token), which built b, and the
   serviceManagerClient over it *)
authenticated(config, authOptions, token, b, sent) ==
    [sm |-> << [config |-> config, httpClient |-> "oidc"] >>,
     client |-> <<b.client>>, heap |-> b.heap,
     reg |-> registerProvider(brokenAuthHeaderProviders, authOptions),
     seed |-> token, options |-> <<authOptions>>, err |-> nil,
     steps |-> << "GetInfo", "discovery", "GetToken", "NewClient" >>, sent |-> sent]

(* lines 94-97, on what auth.GetToken returned *)
withToken(config, authOptions, t, sent) ==
    IF t.err # nil
    THEN aborted(t.err, << "GetInfo", "discovery", "GetToken" >>, sent)
    ELSE authenticated(config, authOptions, t.token, buildClient(sources, t.token), sent)

(* lines 87-93, on what oidc.NewOpenIDStrategy returned *)
withStrategy(config, st, g, sent) ==
    IF st.err # nil
    THEN aborted(st.err, << "GetInfo", "discovery" >>, sent \o st.sent)
    ELSE withToken(config, st.options, GetToken(st.options, g), sent \o st.sent)

(* lines 76-86, on what the first GetInfo returned; issuer is the
   TokenIssuerURL of the info it decoded *)
withInfo(config, info, issuer, oConf, g) ==
    IF info.err # nil
    THEN aborted(info.err, << "GetInfo" >>, info.sent)
    ELSE withStrategy(config,
                      NewOpenIDStrategy([TokenBasicAuth |-> FALSE, IssuerURL |-> issuer],
                                        oConf),
                      g, info.sent)

(* lines 72-75: the serviceManagerClient that makes the first GetInfo *)
bootstrap(httpClient, config) ==
    [config |-> config,
     httpClient |-> IF httpClient = <<>> THEN "http.DefaultClient" ELSE httpClient[1]]

(* the step of NewClientWithAuth that came to b *)
constructed(b, oInfo, inputs) ==
    /\ sm' = b.sm
    /\ client' = b.client
    /\ sources' = b.heap
    /\ brokenAuthHeaderProviders' = b.reg
    /\ seed' = b.seed
    /\ options' = b.options
    /\ last' = [NoCall EXCEPT !.op = "NewClientWithAuth", !.err = b.err,
                              !.steps = b.steps, !.sent = b.sent, !.at = now,
                              !.outcome = oInfo, !.inputs = inputs]
    /\ UNCHANGED <<now, mu, calls>>

(* smclient.NewClientWithAuth(httpClient, config) *)
NewClientWithAuth(httpClient, config, issuer, oInfo, oConf, g) ==
    /\ sm = <<>>
    /\ client = <<>>
    /\ constructed(withInfo(config,
                            callExpect(sources, bootstrap(httpClient, config), "GET",
                                       "InfoURL", <<>>, StatusOK, TRUE, NoCall.answer,
                                       oInfo, now),
                            issuer, oConf, g),
                   oInfo,
                   [httpClient |-> httpClient, config |-> config, issuer |-> issuer,
                    discovery |-> oConf, grant |-> g])

Tick ==
    /\ now < MaxTime
    /\ now' = now + 1
    /\ UNCHANGED <<client, sources, seed, options, brokenAuthHeaderProviders, sm, last,
                   mu, calls>>

Init ==
    /\ client = <<>>
    /\ sources = << >>
    /\ seed = <<>>
    /\ options = <<>>
    /\ brokenAuthHeaderProviders = {}
    /\ sm = <<>>
    /\ now = 1
    /\ last = NoCall
    /\ mu = "unlocked"
    /\ calls = [g \in Callers |-> Idle]

(* the token endpoint answers only when asked: the answers worth trying for
   a call on the source at address a *)
Answers(a) ==
    IF Valid(sources[a].t, now) THEN {CHOOSE r \in TokenResponses : ~r.ok}
    ELSE TokenResponses

(* likewise the resource server, for a request that token r lets through *)
Reached(a, r, outcomes) ==
    IF reuseTokenSourceToken(sources[a], r, now).err # nil THEN {TransportError}
    ELSE outcomes

Next ==
    \/ \E opts \in AuthOptions, token \in AuthTokens : NewClient(opts, token)
    \/ /\ client # <<>>
       /\ \E r \in Answers(client[1].tokenSource) : ClientToken(r)
    \/ /\ client # <<>>
       /\ \E r \in Answers(client[1].httpClient.Source) :
             \E o \in Reached(client[1].httpClient.Source, r, DoOutcomes) : ClientDo(r, o)
    \/ Tick

Spec == Init /\ [][Next]_vars

-----------------------------------------------------------------------------
(* The serviceManagerClient over an oidc client: smclient.NewClient(authClient,
   URL) on the client that oidc.NewClient(opts, token) returned *)

InitSM ==
    \E opts \in {o \in AuthOptions : o.TokenBasicAuth}, token \in SMTokens,
       URL \in ConfigURLs :
        LET b == buildClient(<< >>, token)
        IN  /\ client = <<b.client>>
            /\ sources = b.heap
            /\ seed = token
            /\ options = <<opts>>
            /\ brokenAuthHeaderProviders = registerProvider({}, opts)
            /\ sm = << [config |-> [URL |-> URL], httpClient |-> "oidc"] >>
            /\ now = 1
            /\ last = NoCall
            /\ mu = "unlocked"
            /\ calls = [g \in Callers |-> Idle]

(* the answers and outcomes worth trying for a request to smpath *)
SMAnswers(smpath, q) ==
    IF NewRequestFails(<<NormalizeURL(sm[1].config.URL)>> \o buildURL(smpath, q))
    THEN {CHOOSE r \in TokenResponses : ~r.ok}
    ELSE Answers(client[1].httpClient.Source) \cap SMTokenResponses
SMReached(smpath, q, r) ==
    IF NewRequestFails(<<NormalizeURL(sm[1].config.URL)>> \o buildURL(smpath, q))
    THEN {TransportError}
    ELSE Reached(client[1].httpClient.Source, r, SMOutcomes)
(* S when it is read, one element of S when it is not *)
Unread(read, S) == IF read THEN S ELSE {CHOOSE x \in S : TRUE}
Marshalled(resource, S) == IF resource.marshals THEN S ELSE {CHOOSE x \in S : TRUE}

NextSM ==
    \/ \E method \in {"GET", "POST"}, q \in Queries :
         \E r \in SMAnswers("InfoURL", q) : \E o \in SMReached("InfoURL", q, r) :
            SMCall(method, "InfoURL", q, r, o)
    \/ \E q \in Queries :
         \E r \in SMAnswers("InfoURL", q) : \E o \in SMReached("InfoURL", q, r) :
            GetInfo(q, r, o)
    \/ \E url \in Collections, resource \in Resources, q \in Queries :
         \E r \in Marshalled(resource, SMAnswers(url, q)) :
         \E o \in Marshalled(resource, SMReached(url, q, r)) :
            Register(url, resource, q, r, o)
    \/ \E url \in Collections, q \in Queries :
         \E r \in SMAnswers(url, q) : \E o \in SMReached(url, q, r) :
            List(url, q, r, o)
    \/ \E url \in Collections, id \in IDs, resource \in Resources, q \in Queries :
         \E r \in Marshalled(resource, SMAnswers(url, q)) :
         \E o \in Marshalled(resource, SMReached(url, q, r)) :
            Update(url, id, resource, q, r, o)
    \/ \E url \in Collections, q \in Queries :
         \E r \in SMAnswers(url, q) : \E o \in SMReached(url, q, r) :
            Delete(url, q, r, o)
    \/ \E url \in Collections, id \in IDs, change \in Resources, q \in Queries :
         \E r \in Marshalled(change, SMAnswers(url, q)) :
         \E o \in Marshalled(change, SMReached(url, q, r)) :
            Label(url, id, change, q, r, o)
    \/ \E q \in Queries, n \in 0..MaxOfferings :
         \E r \in SMAnswers("ServiceOfferingsURL", q) :
         \E os \in Unread(SMReached("ServiceOfferingsURL", q, r) # {TransportError},
                          OfferingOutcomes(n)) :
            ListOfferings(q, n, r, os)

SpecSM == InitSM /\ [][NextSM]_vars

-----------------------------------------------------------------------------
(* Construction of the serviceManagerClient by NewClientWithAuth, and the
   first use of the client it returns *)

(* the first GetInfo of NewClientWithAuth succeeds *)
infoRead(httpClient, config, oInfo) ==
    callExpect(sources, bootstrap(httpClient, config), "GET", "InfoURL", <<>>,
               StatusOK, TRUE, NoCall.answer, oInfo, now).err = nil

NextAuth ==
    \/ \E httpClient \in BootClients, URL \in ConfigURLs :
       \E oInfo \in Unread(~NewRequestFails(<<URL>>), BootOutcomes) :
       \E issuer \in Unread(infoRead(httpClient, [URL |-> URL], oInfo), Issuers) :
       \E oConf \in Unread(infoRead(httpClient, [URL |-> URL], oInfo)
                             /\ ~NewRequestFails(<<issuer>>), BootOutcomes) :
       \E g \in Unread(infoRead(httpClient, [URL |-> URL], oInfo)
                         /\ fetchOpenidConfiguration(issuer, oConf).err = nil,
                       TokenGrants) :
            NewClientWithAuth(httpClient, [URL |-> URL], issuer, oInfo, oConf, g)
    \/ /\ sm # <<>>
       /\ \E q \in Queries :
            \E r \in SMAnswers("InfoURL", q) : \E o \in SMReached("InfoURL", q, r) :
               GetInfo(q, r, o)

SpecAuth == Init /\ [][NextAuth]_vars

-----------------------------------------------------------------------------
(* Several oidc clients in one process: the client followed here, and the
   others that NewClient is called for before and after it *)

(* the options of the other clients: same issuer or another one *)
OtherOptions ==
    { [TokenBasicAuth |-> b, IssuerURL |-> u] :
        b \in BOOLEAN, u \in {IssuerURL, "https://other-issuer"} }

NextProcess ==
    \/ \E opts \in AuthOptions, token \in SMTokens : NewClient(opts, token)
    \/ \E opts \in OtherOptions, token \in SMTokens : NewOtherClient(opts, token)
    \/ /\ client # <<>>
       /\ \E r \in Answers(client[1].tokenSource) \cap SMTokenResponses : ClientToken(r)
    \/ /\ client # <<>>
       /\ \E r \in Answers(client[1].httpClient.Source) \cap SMTokenResponses :
             \E o \in Reached(client[1].httpClient.Source, r, DoOutcomes) : ClientDo(r, o)

SpecProcess == Init /\ [][NextProcess]_vars

-----------------------------------------------------------------------------
(* One oidc client called by several goroutines at once *)

InitConcurrent ==
    \E opts \in {o \in AuthOptions : o.TokenBasicAuth}, token \in ConcurrentTokens :
        LET b == buildClient(<< >>, token)
        IN  /\ client = <<b.client>>
            /\ sources = b.heap
            /\ seed = token
            /\ options = <<opts>>
            /\ brokenAuthHeaderProviders = registerProvider({}, opts)
            /\ sm = <<>>
            /\ now = 1
            /\ last = [NoCall EXCEPT !.op = "NewClient"]
            /\ mu = "unlocked"
            /\ calls = [g \in Callers |-> Idle]

NextConcurrent ==
    \/ \E g \in Callers, op \in {"Token", "Do"} : Begin(g, op)
    \/ \E g \in Callers : Lock(g)
    \/ \E g \in Callers, r \in ConcurrentResponses : Fetched(g, r)
    \/ \E g \in Callers : Return(g)
    \/ Tick

SpecConcurrent == InitConcurrent /\ [][NextConcurrent]_vars

-----------------------------------------------------------------------------
(* Properties of the token sources, checked under Spec *)

(* fresh, as the data model has it: an access token whose expiry, if it has
   one, lies ahead *)
Fresh(tp, clock) ==
    /\ tp # <<>>
    /\ tp[1].AccessToken # ""
    /\ (tp[1].Expiry = ZeroTime \/ clock < tp[1].Expiry)

SeedRefreshable == seed # <<>> /\ seed[1].RefreshToken # ""
TokenCall == last.op \in {"Token", "Do"}
(* the error of the token source inside what the call returned *)
SourceErr == IF last.op = "Do" /\ last.err.type = "url.Error" THEN last.err.Err ELSE last.err
AnswerFails == ~last.answer.ok \/ last.answer.access_token = ""
Cached == sources[client[1].tokenSource].t

(* C1: NewClient builds the client-credentials source exactly when the token
   is nil or has no refresh token, else the refresh source seeded with the
   token's four fields unchanged; Token and Do share that one source, and
   the kind of source stays what the token selected whatever happens later *)
C1_StrategySelectedOnce ==
    client # <<>> =>
        LET s == sources[client[1].tokenSource]
        IN  /\ (s.new.kind = "clientCredentials") <=> (seed = <<>> \/ seed[1].RefreshToken = "")
            /\ (s.new.kind = "refresh") <=> SeedRefreshable
            /\ client[1].httpClient.Source = client[1].tokenSource
            /\ (last.op = "NewClient" /\ SeedRefreshable) =>
                   /\ s.t = << [AccessToken |-> seed[1].AccessToken,
                                RefreshToken |-> seed[1].RefreshToken,
                                Expiry |-> seed[1].ExpiresIn,
                                TokenType |-> seed[1].TokenType] >>
                   /\ s.new.refreshToken = seed[1].RefreshToken

(* a refresh-seeded client whose refresh has just failed *)
C1_Witness ==
    /\ client # <<>>
    /\ SeedRefreshable
    /\ last.op = "Token"
    /\ last.exchanges = << "refresh_token" >>
    /\ last.err # nil

(* C2: a call that finds the cached token fresh makes no exchange and hands
   out the cached token; a client built without a token makes exactly one
   client-credentials exchange on a call that finds nothing cached *)
C2_Reuse ==
    TokenCall =>
        /\ Fresh(last.before, last.at) =>
               /\ last.exchanges = << >>
               /\ last.op = "Token" =>
                      /\ last.err = nil
                      /\ last.token[1].AccessToken = last.before[1].AccessToken
                      /\ last.token[1].ExpiresIn = last.before[1].Expiry
               /\ last.op = "Do" =>
                      /\ Len(last.sent) = 1
                      /\ last.sent[1].Authorization[2] = last.before[1].AccessToken
        /\ (seed = <<>> /\ last.before[1].AccessToken = "") =>
               last.exchanges = << "client_credentials" >>

(* a client built without a token reuses the token its first call fetched *)
C2_Witness ==
    /\ seed = <<>>
    /\ client # <<>>
    /\ TokenCall
    /\ last.before # <<>>
    /\ last.before[1].AccessToken \in IssuedAccessTokens
    /\ Fresh(last.before, last.at)
    /\ last.exchanges = << >>

(* C3: a call that finds the cached token past its expiry makes exactly one
   exchange, a refresh for a client seeded with a refresh token and a
   client-credentials exchange otherwise; when it succeeds the token handed
   out is the answer's and is the one now cached *)
C3_RefreshTransition ==
    (TokenCall /\ last.before[1].Expiry # ZeroTime /\ last.before[1].Expiry <= last.at) =>
        /\ last.exchanges =
               << IF SeedRefreshable THEN "refresh_token" ELSE "client_credentials" >>
        /\ last.err = nil =>
               /\ Cached # last.before
               /\ Cached[1].AccessToken = last.answer.access_token
               /\ Cached[1].TokenType = last.answer.token_type
               /\ Cached[1].Expiry = IF last.answer.expires_in # 0
                                     THEN last.at + last.answer.expires_in ELSE ZeroTime
               /\ last.answer.refresh_token # "" =>
                      Cached[1].RefreshToken = last.answer.refresh_token
               /\ last.op = "Token" => last.token = authToken(Cached)
               /\ last.op = "Do" =>
                      last.sent[1].Authorization[2] = last.answer.access_token

(* an expired seed with a refresh token, refreshed by the first call *)
C3_Witness ==
    /\ SeedRefreshable
    /\ last.op = "Token"
    /\ last.before = << tokenCopy(seed) >>
    /\ last.before[1].Expiry # ZeroTime /\ last.before[1].Expiry <= last.at
    /\ last.err = nil
    /\ last.exchanges = << "refresh_token" >>

(* C4: a client seeded with a refresh token never makes a client-credentials
   exchange, and each call that finds the token stale and whose refresh
   fails returns the refresh error *)
C4_StrategyImmutable ==
    (client # <<>> /\ SeedRefreshable) =>
        /\ \A i \in 1..Len(last.exchanges) : last.exchanges[i] # "client_credentials"
        /\ (TokenCall /\ ~Fresh(last.before, last.at) /\ AnswerFails) =>
               /\ last.exchanges = << "refresh_token" >>
               /\ SourceErr.type \in {"RetrieveError", "MissingAccessToken"}
               /\ SourceErr.grant = "refresh_token"
               /\ last.token = <<>>
               /\ last.resp = <<>>
               /\ Cached = last.before

(* a failed refresh on a cache that an earlier refresh had filled *)
C4_Witness ==
    /\ SeedRefreshable
    /\ TokenCall
    /\ last.before # << tokenCopy(seed) >>
    /\ ~Fresh(last.before, last.at)
    /\ AnswerFails
    /\ last.err # nil

(* the token NewClient was given is fresh at the time clock *)
SeedFresh(clock) ==
    /\ seed[1].AccessToken # ""
    /\ (seed[1].ExpiresIn = ZeroTime \/ clock < seed[1].ExpiresIn)

(* C5: a client given a token without refresh token hands out that token,
   with no exchange, on every call made while that token is fresh; any
   exchange it makes is a client-credentials one, made by a call after the
   given token went stale *)
C5_SeedHonoured ==
    (client # <<>> /\ seed # <<>> /\ seed[1].RefreshToken = "" /\ TokenCall) =>
        /\ SeedFresh(last.at) =>
               /\ last.exchanges = << >>
               /\ last.op = "Token" => (last.err = nil /\ last.token = seed)
               /\ last.op = "Do" =>
                      /\ Len(last.sent) = 1
                      /\ last.sent[1].Authorization[2] = seed[1].AccessToken
               /\ Cached # <<>>
               /\ Cached[1].AccessToken = seed[1].AccessToken
               /\ Cached[1].Expiry = seed[1].ExpiresIn
        /\ last.exchanges # << >> =>
               /\ ~SeedFresh(last.at)
               /\ last.exchanges = << "client_credentials" >>

(* the seed handed out again at a later time, still without any exchange *)
C5_Witness ==
    /\ seed # <<>> /\ seed[1].RefreshToken = ""
    /\ last.op = "Token"
    /\ last.at > 1
    /\ last.token = seed
    /\ last.exchanges = << >>

(* C6: a request that Do sends carries the access token the token source
   holds after serving this call, a fresh one; when the token cannot be
   obtained the request is not sent and Do returns the source's error *)
C6_AuthenticatedTransport ==
    last.op = "Do" =>
        /\ Len(last.sent) <= 1
        /\ last.sent # << >> =>
               /\ Fresh(Cached, last.at)
               /\ last.sent[1].Authorization = <<Type(Cached[1]), Cached[1].AccessToken>>
               /\ ~Fresh(last.before, last.at) => Len(last.exchanges) = 1
        /\ (~Fresh(last.before, last.at) /\ AnswerFails) =>
               /\ last.sent = << >>
               /\ last.resp = <<>>
               /\ last.err.type = "url.Error"
               /\ last.err.Err.type \in {"RetrieveError", "MissingAccessToken"}
        /\ last.resp # <<>> => last.sent # << >>

(* a request sent with a token that this very call had to fetch *)
C6_Witness ==
    /\ last.op = "Do"
    /\ last.exchanges # << >>
    /\ last.sent # << >>
    /\ last.resp # <<>>

(* the call made an exchange and the token endpoint's answer gave no token *)
AcquisitionFailed == TokenCall /\ last.exchanges # << >> /\ AnswerFails
(* the step is a call of Token or Do *)
NextTokenCall == TokenCall' /\ last' # last

(* what C13 says of one call: at most one exchange; a failed one gives the
   error and leaves the cached token as it was *)
OneAttempt ==
    TokenCall =>
        /\ Len(last.exchanges) <= 1
        /\ Fresh(last.before, last.at) => last.exchanges = << >>
        /\ AcquisitionFailed =>
               /\ ~Fresh(last.before, last.at)
               /\ SourceErr.type \in {"RetrieveError", "MissingAccessToken"}
               /\ last.token = <<>>
               /\ last.sent = << >>
               /\ Cached = last.before

(* what C13 says of the call after a failed one: it makes an exchange of its
   own, and with a good answer it succeeds and leaves a fresh token cached *)
RetriedAfterFailure ==
    (AcquisitionFailed /\ NextTokenCall) =>
        /\ last'.before = Cached
        /\ Len(last'.exchanges) = 1
        /\ ~AnswerFails' =>
               /\ Fresh(Cached', now')
               /\ Cached'[1].AccessToken = last'.answer.access_token
               /\ last'.op = "Token" => (last'.err = nil /\ last'.token = authToken(Cached'))
               /\ last'.op = "Do" =>
                      (Len(last'.sent) = 1
                         /\ last'.sent[1].Authorization[2] = last'.answer.access_token)

(* C13: a Token or Do call that finds the cache empty or stale makes at most
   one exchange; when that fails the call returns the error and the cached
   token is unchanged; the next call makes a new attempt and, the token
   endpoint answering, ends with a fresh token: failure is not absorbing *)
C13_FailureRetried == []OneAttempt /\ [][RetriedAfterFailure]_vars

(* a token fetched earlier has gone stale and the exchange for a new one has
   failed: the stale token stays in the cache *)
C13_Witness ==
    /\ TokenCall
    /\ last.before # <<>>
    /\ last.before[1].AccessToken \in IssuedAccessTokens
    /\ ~Fresh(last.before, last.at)
    /\ AcquisitionFailed
    /\ last.err # nil
    /\ Cached = last.before

(* the client fetches its tokens with the client credentials *)
ClientCredentialsClient == client # <<>> /\ ~SeedRefreshable
FailedClientCredentials ==
    ClientCredentialsClient /\ AcquisitionFailed /\ last.exchanges = << "client_credentials" >>

(* C14 as stated: once a client-credentials exchange has failed, every later
   Token or Do call on that client fails *)
C14_UnusableAfterFailure ==
    [][(FailedClientCredentials /\ NextTokenCall) => last'.err # nil]_vars

(* a failed client-credentials exchange leaves the source as it was, still a
   client-credentials source *)
SourceIntact ==
    FailedClientCredentials =>
        sources[client[1].tokenSource] =
            [t |-> last.before, new |-> [kind |-> "clientCredentials", refreshToken |-> ""]]

(* the call after a failed client-credentials exchange makes that exchange
   again and succeeds exactly when the token endpoint gives a token *)
UsableAfterFailure ==
    (FailedClientCredentials /\ NextTokenCall) =>
        /\ last'.exchanges = << "client_credentials" >>
        /\ last'.op = "Token" => (last'.err = nil <=> ~AnswerFails')
        /\ last'.op = "Do" => (last'.sent # << >> <=> ~AnswerFails')

(* C14, amended: a failed client-credentials exchange leaves the token source
   as it was; the next Token or Do call on the same client makes the
   exchange again and succeeds when the token endpoint answers with a token,
   without a new client being constructed *)
C14_UsableAfterFailure == []SourceIntact /\ [][UsableAfterFailure]_vars

(* a client built without a token whose first exchange has failed: nothing
   cached, the source still in place *)
C14_Witness ==
    /\ client # <<>>
    /\ seed = <<>>
    /\ FailedClientCredentials
    /\ last.err # nil
    /\ Cached[1].AccessToken = ""
    /\ sources[client[1].tokenSource].new.kind = "clientCredentials"

(* the token in the cache that Do's transport reads *)
TransportCached == sources[client[1].httpClient.Source].t

(* a call that obtained a token hands out, or attaches, the one token that
   both entry points now find cached *)
OneCache ==
    TokenCall =>
        /\ TransportCached = Cached
        /\ (last.op = "Token" /\ last.err = nil) => last.token = authToken(Cached)
        /\ (last.op = "Do" /\ last.sent # << >>) =>
               last.sent[1].Authorization = <<Type(Cached[1]), Cached[1].AccessToken>>
        /\ last.exchanges # << >> => ~Fresh(last.before, last.at)

(* the call after a Token or Do call, by either entry point, starts from the
   token that call left; while that token is fresh it is what the call
   returns or attaches, with no exchange *)
HandedOn ==
    (TokenCall /\ NextTokenCall) =>
        /\ last'.before = Cached
        /\ Fresh(Cached, now) =>
               /\ last'.exchanges = << >>
               /\ Cached' = Cached
               /\ last'.op = "Token" => last'.token = authToken(Cached)
               /\ last'.op = "Do" =>
                      (Len(last'.sent) = 1
                         /\ last'.sent[1].Authorization[2] = Cached[1].AccessToken)

(* C18: Token and Do of one client read and fill one cached token: in every
   sequence of calls of the two, the token one call acquired or refreshed is
   what the next call returns or attaches while it is fresh, and no call
   makes an exchange while a fresh token is cached, so that no period of
   staleness is ended by two exchanges *)
C18_SingleCache == []OneCache /\ [][HandedOn]_vars

(* Do attaches, without an exchange, a token that an earlier call of a client
   built without any token had fetched *)
C18_Witness ==
    /\ seed = <<>>
    /\ last.op = "Do"
    /\ last.exchanges = << >>
    /\ Len(last.sent) = 1
    /\ last.sent[1].Authorization[2] \in IssuedAccessTokens
    /\ last.before = Cached

-----------------------------------------------------------------------------
(* Properties of the serviceManagerClient, checked under SpecSM *)

(* the operation's request was answered with a response *)
Received == last.sent # << >> /\ ~last.outcome.netErr
Status == last.outcome.StatusCode
Failure == Status < 200 \/ Status > 299
Decoded == << [ID |-> last.outcome.body.id] >>
ReadWrite == {"Register", "List", "Update", "GetInfo"}
Expected == IF last.op = "Register" THEN 201 ELSE 200

(* C7: for every response with a status outside 200..299, Call returns a nil
   response and a ResponseError with that status and the request's URL,
   whether or not the body decodes *)
C7_FailureReturnsNoResponse ==
    (last.op = "Call" /\ Received /\ Failure) =>
        /\ last.resp = <<>>
        /\ last.err.type = "ResponseError"
        /\ last.err.StatusCode = Status
        /\ last.err.URL = last.sent[1].URL

(* C8: for a failure response whose body is a JSON object, ErrorMessage is
   the error field when that is a string and empty otherwise, Description is
   the description field when that is a string and empty otherwise, each
   whatever the other field is *)
C8_ErrorBodyBestEffort ==
    (last.op = "Call" /\ Received /\ Failure /\ last.outcome.body.json = "object") =>
        /\ last.err.type = "ResponseError"
        /\ last.err.ErrorMessage =
               IF last.outcome.body.error.type = "string"
               THEN last.outcome.body.error.val ELSE ""
        /\ last.err.Description =
               IF last.outcome.body.description.type = "string"
               THEN last.outcome.body.description.val ELSE ""

(* a body whose description is a string and whose error field is a number *)
C8_Witness ==
    /\ last.op = "Call" /\ Received /\ Failure
    /\ last.outcome.body.json = "object"
    /\ last.outcome.body.error.type = "number"
    /\ last.outcome.body.description.type = "string"
    /\ last.err.Description = "expired"
    /\ last.err.ErrorMessage = ""

(* C9 as stated: register, list, update and GetInfo turn every status in
   200..299 with a decodable body into the decoded value and no error, and
   delete succeeds on status 200 only *)
C9_AnySuccessStatusDecodes ==
    /\ (last.op \in ReadWrite /\ Received /\ ~Failure
          /\ last.outcome.body.json = "object") =>
           (last.err = nil /\ last.value = Decoded)
    /\ (last.op = "Delete" /\ Received) => (last.err = nil <=> Status = 200)

(* C9, amended: register, list, update and GetInfo turn the one status they
   expect (201 for register, 200 for the others) with a decodable body into
   the decoded value and no error, and answer every other status in 200..299
   with an error; delete succeeds on status 200 only *)
C9_ExpectedStatusDecodes ==
    /\ (last.op \in ReadWrite /\ Received /\ Status = Expected
          /\ last.outcome.body.json = "object") =>
           (last.err = nil /\ last.value = Decoded)
    /\ (last.op \in ReadWrite /\ Received /\ ~Failure /\ Status # Expected) =>
           (last.err # nil /\ last.err.type = "ResponseError"
              /\ last.err.StatusCode = Status)
    /\ (last.op = "Delete" /\ Received) => (last.err = nil <=> Status = 200)

(* a registration answered with 201 and an object, decoded *)
C9_Witness ==
    /\ last.op = "Register" /\ Received
    /\ Status = 201
    /\ last.outcome.body.json = "object"
    /\ last.err = nil
    /\ last.value = Decoded

(* C10: Call and every Register, List, Update operation and GetInfo return
   either a value and a nil error or a nil value and an error *)
C10_ValueXorError ==
    last.op \in ReadWrite \cup {"Call"} =>
        LET returned == IF last.op = "Call" THEN last.resp ELSE last.value
        IN  (returned # <<>>) <=> (last.err = nil)

(* every operation of the serviceManagerClient that makes one request *)
SMOps == ReadWrite \cup {"Call", "Delete", "Label"}
(* the request went out and the round trip failed in the network *)
NetworkError == last.sent # << >> /\ last.outcome.netErr

(* C12: when the http client's Do fails in the network, Call returns no
   response and the error Do returned, not a ResponseError, and register,
   list, update, delete, Label and GetInfo return that same error and have
   decoded nothing (a List operation hands back the struct it allocated,
   still empty) *)
C12_TransportErrorUnchanged ==
    (last.op \in SMOps /\ NetworkError) =>
        /\ last.err = [type |-> "url.Error", Op |-> last.sent[1].Method,
                       Err |-> [type |-> "net.Error"]]
        /\ last.resp = <<>>
        /\ last.value = IF last.op = "List" THEN << [ID |-> ""] >> ELSE <<>>

(* an update whose request went out with the token and failed in the network *)
C12_Witness ==
    /\ last.op = "Update"
    /\ NetworkError
    /\ last.sent[1].Method = "PATCH"
    /\ last.err.type = "url.Error"
    /\ last.err.Err.type = "net.Error"
    /\ last.value = <<>>

(* the HTTP method of each operation *)
Verb ==
    CASE last.op = "Register"            -> "POST"
      [] last.op \in {"List", "GetInfo"} -> "GET"
      [] last.op \in {"Update", "Label"} -> "PATCH"
      [] last.op = "Delete"              -> "DELETE"
      [] OTHER                           -> last.sent[1].Method
(* the operation reads no body, or the body it was sent decodes *)
Readable == last.op \in {"Delete", "Label"} \/ last.outcome.body.json = "object"

(* C15: register sends a POST and accepts status 201 only; list and GetInfo
   (GET), update and Label (PATCH) and delete (DELETE) accept status 200
   only.  An operation succeeds only on the status it accepts, and does
   succeed on it when the body it has to read decodes; on every other
   status, the rest of 200..299 included, it returns a ResponseError with
   the response's status and has decoded no result *)
C15_ExpectedStatusPerVerb ==
    (last.op \in SMOps \ {"Call"} /\ Received) =>
        /\ last.sent[1].Method = Verb
        /\ last.err = nil => Status = Expected
        /\ Status = Expected =>
               /\ last.err.type # "ResponseError"
               /\ last.err = nil <=> Readable
        /\ Status # Expected =>
               /\ last.err.type = "ResponseError"
               /\ last.err.StatusCode = Status
               /\ last.value = IF last.op = "List" THEN << [ID |-> ""] >> ELSE <<>>

(* a Label answered 204 No Content is refused with that status *)
C15_Witness ==
    /\ last.op = "Label" /\ Received
    /\ Status = 204
    /\ last.err.type = "ResponseError"
    /\ last.err.StatusCode = 204

(* C16: every ResponseError an operation returns carries the status of the
   response and the full URL of the request, whether Call built it for a
   status outside 200..299 or the operation built it for a status it does
   not accept *)
C16_ResponseErrorComplete ==
    (last.op \in SMOps /\ Received /\ last.err.type = "ResponseError") =>
        /\ last.err.StatusCode = Status
        /\ last.err.URL = last.sent[1].URL

(* the requests of the last ListOfferings that were answered badly *)
Listing == last.op = "ListOfferings" /\ last.sent # << >>
BadAnswer(o) == o.netErr \/ o.StatusCode # 200 \/ o.body.json # "object"
BadAnswers ==
    { k \in 1..(IF BadAnswer(last.inputs.outcomes[1]) THEN 1 ELSE 1 + 2 * last.inputs.n) :
        BadAnswer(last.inputs.outcomes[k]) }
FirstBad == CHOOSE k \in BadAnswers : \A j \in BadAnswers : k <= j
PathOf(req) == req.URL[2]

(* C19: ListOfferings asks for the offerings and then, for each of the n
   offerings in order, for its plans and for its broker; when all 1 + 2n
   requests are answered well it returns the n offerings, each with the
   plans and the broker name of its own two responses; the first request
   answered badly is the last one made and ListOfferings returns nil and
   that request's error.  So it is for every query argument, nil included *)
C19_OfferingsAllOrNothing ==
    Listing =>
        /\ last.panic = ""
        /\ PathOf(last.sent[1]) = "ServiceOfferingsURL"
        /\ \A k \in 2..Len(last.sent) :
               PathOf(last.sent[k]) =
                   IF k % 2 = 0 THEN "ServicePlansURL"
                   ELSE "ServiceBrokersURL/b-" \o ToString(k \div 2)
        /\ BadAnswers = {} =>
               /\ last.err = nil
               /\ Len(last.sent) = 1 + 2 * last.inputs.n
               /\ last.value # <<>>
               /\ Len(last.value[1]) = last.inputs.n
               /\ \A i \in 1..last.inputs.n :
                      /\ last.value[1][i].ID = "so-" \o ToString(i)
                      /\ last.value[1][i].Plans = << [ID |-> ToString(2 * i)] >>
                      /\ last.value[1][i].BrokerName = ToString(2 * i + 1)
        /\ BadAnswers # {} =>
               /\ Len(last.sent) = FirstBad
               /\ last.value = <<>>
               /\ last.err # nil
               /\ last.err.type =
                      IF last.inputs.outcomes[FirstBad].netErr THEN "url.Error"
                      ELSE IF last.inputs.outcomes[FirstBad].StatusCode # 200
                      THEN "ResponseError" ELSE "json.SyntaxError"

-----------------------------------------------------------------------------
(* Properties of NewClientWithAuth, checked under SpecAuth *)

Boot == last.op = "NewClientWithAuth"
BootOrder == << "GetInfo", "discovery", "GetToken", "NewClient" >>
(* what the inputs of the construction make of each step *)
InfoFails ==
    \/ last.inputs.config.URL = "://bad"
    \/ last.outcome.netErr
    \/ last.outcome.StatusCode # 200
    \/ last.outcome.body.json # "object"
DiscoveryFails ==
    \/ last.inputs.issuer = "://bad"
    \/ last.inputs.discovery.netErr
    \/ last.inputs.discovery.StatusCode # 200
    \/ last.inputs.discovery.body.json # "object"
GrantFails == ~last.inputs.grant.ok

(* C11: NewClientWithAuth makes the unauthenticated GetInfo, the discovery,
   the first token acquisition and the building of the authenticated client
   in this order; the first of the three that fails (a discovery status
   other than 200 included) ends the construction with a nil client, that
   error and none of the later steps; a client is returned only when all
   succeeded, it is seeded with the acquired token and it sends its requests
   through the authenticated transport, which the first GetInfo did not use *)
C11_ConstructionOrder ==
    /\ Boot =>
         /\ Len(last.steps) >= 1
         /\ last.steps = SubSeq(BootOrder, 1, Len(last.steps))
         /\ Len(last.steps) = IF InfoFails THEN 1 ELSE IF DiscoveryFails THEN 2
                              ELSE IF GrantFails THEN 3 ELSE 4
         /\ (last.err # nil) <=> (Len(last.steps) < 4)
         /\ Len(last.sent) <= IF Len(last.steps) = 1 THEN 1 ELSE 2
         /\ \A i \in 1..Len(last.sent) : last.sent[i].Authorization = << >>
         /\ last.err # nil =>
               /\ sm = <<>> /\ client = <<>> /\ sources = << >>
               /\ brokenAuthHeaderProviders = {} /\ seed = <<>>
         /\ last.err = nil =>
               /\ sm = << [config |-> last.inputs.config, httpClient |-> "oidc"] >>
               /\ client # <<>>
               /\ seed = last.inputs.grant.token
               /\ sources[client[1].httpClient.Source].t = << tokenCopy(seed) >>
    /\ sm # <<>> => (sm[1].httpClient = "oidc" /\ client # <<>>)
    /\ (last.op = "GetInfo" /\ last.sent # << >>) =>
           /\ last.sent[1].Authorization # << >>
           /\ last.sent[1].Authorization[2] =
                  sources[client[1].httpClient.Source].t[1].AccessToken

(* a discovery answered 204 with a well-formed document: the construction
   stops there, having asked for no token and built no client *)
C11_Witness ==
    /\ Boot
    /\ ~InfoFails
    /\ last.inputs.discovery.StatusCode = 204
    /\ last.inputs.discovery.body.json = "object"
    /\ last.steps = << "GetInfo", "discovery" >>
    /\ last.err.type = "errorString"
    /\ sm = <<>>

-----------------------------------------------------------------------------
(* Properties of a client among others, checked under SpecProcess *)

(* C20: the exchanges of a client send the client id and secret in the
   Basic-Auth header when the client was built with TokenBasicAuth, and as
   form parameters when it was not, whichever other clients are built
   before or after it, for the same issuer or another *)
C20_AuthStyleOwnOption ==
    (TokenCall /\ last.exchanges # << >>) =>
        last.authStyle = IF options[1].TokenBasicAuth THEN "header" ELSE "params"

-----------------------------------------------------------------------------
(* Properties of overlapping calls, checked under SpecConcurrent *)

(* the callers whose exchange with the token endpoint is under way *)
InFlight == { g \in Callers : calls[g].pc = "fetching" }

(* at most one exchange is under way, made by the holder of the mutex *)
OneInFlight ==
    /\ Cardinality(InFlight) <= 1
    /\ \A g \in InFlight : mu = g

(* a token that a call came back with and that is still valid is the one
   cached: no exchange has replaced a token that was still good *)
ReturnedFromCache ==
    \A g \in Callers :
        (calls[g].pc = "done" /\ ~calls[g].failed /\ Valid(calls[g].tok, now)) =>
            calls[g].tok = Cached

(* a waiting caller that takes the mutex after an exchange has left a valid
   token goes on with that token and makes no exchange; it starts an
   exchange only when the token is not valid, and then no other exchange is
   under way; an exchange that succeeds leaves its token cached *)
Coalesced ==
    \A g \in Callers :
        /\ (calls[g].pc = "lock" /\ calls'[g].pc # "lock") =>
               IF Valid(Cached, now)
               THEN /\ calls'[g].pc = "done"
                    /\ ~calls'[g].exchanged
                    /\ calls'[g].tok = Cached
                    /\ Cached' = Cached
               ELSE /\ calls'[g].pc = "fetching"
                    /\ InFlight = {}
        /\ (calls[g].pc = "fetching" /\ calls'[g].pc = "done" /\ ~calls'[g].failed) =>
               /\ calls'[g].exchanged
               /\ Cached' = calls'[g].tok
               /\ Valid(Cached', now)

(* C17: of the Token and Do calls that overlap while the token is stale or
   missing, at most one is exchanging with the token endpoint at any time;
   once an exchange has produced a token, the other callers make no exchange
   of their own and all go on with that token *)
C17_ExchangesCoalesced == []OneInFlight /\ []ReturnedFromCache /\ [][Coalesced]_vars

(* three calls begun while the token was stale: one made the exchange, the
   other two came back with the token it produced *)
C17_Witness ==
    \E g \in Callers :
        /\ calls[g].pc = "done" /\ calls[g].stale
        /\ calls[g].exchanged /\ ~calls[g].failed
        /\ calls[g].tok = Cached
        /\ \A h \in Callers \ {g} :
               /\ calls[h].pc = "done" /\ calls[h].stale
               /\ ~calls[h].exchanged
               /\ calls[h].tok = calls[g].tok

====
